---- MODULE Spec2Model ----
(***************************************************************************)
(* Model of the Mel-frequency cepstral analysis code of phd/mfcc.py:       *)
(* framing and overlap-add (framesig, deframesig), the Mel filterbank      *)
(* (get_filterbanks) and the cepstral pipeline (fbank, lifter, mfcc).      *)
(*                                                                         *)
(* The functions are pure.  A behaviour is one call: Init draws the        *)
(* function called and its arguments, and one action per function applies  *)
(* it and records what it returns or raises.                               *)
(*                                                                         *)
(* Conventions.  Python indexes from 0 and TLA+ sequences from 1: element  *)
(* k of a Python array is element k+1 of the sequence that models it.      *)
(* A real argument x that the code rounds (frame lengths and steps are     *)
(* window_dt*fs and dt*fs) is given as the integer 2*x, so that the halves *)
(* on which rounding modes differ are inputs.  A real result is an exact   *)
(* fraction of integers.                                                   *)
(***************************************************************************)
EXTENDS Integers, Sequences, FiniteSets, TLC

(***************************************************************************)
(* Bounds of the model.                                                    *)
(***************************************************************************)
\* longest signal
MaxSigLen == 4
\* largest frame length and frame step argument, in half samples
MaxGeom2 == 6
\* largest siglen argument of deframesig
MaxTarget == 5
\* most filters of a filterbank
MaxFilters == 3
\* largest FFT size
MaxFFT == 8
\* largest maxfreq argument, in half Hz (twice the largest sample rate)
MaxFreqArg2 == 10
\* most cepstral coefficients asked of mfcc
MaxCepstra == 3
\* most derivative blocks asked of mfcc
MaxDerivatives == 2

\* sample values of a signal
Samples == {-1, 0, 2}
\* window functions: np.ones, a rising ramp (j+1), and a falling one
\* (frame_len-1-j) whose last weight is zero
WinFuncs == {"ones", "ramp", "decay"}
\* An optional argument: None when omitted, Some(x) when given
None == << >>
Some(x) == <<x>>
\* a result not yet produced
NoResult == [status |-> "none"]

\* sample rates, in Hz: an even and an odd one
SampleRates == {4, 5}
\* lowest band edges, in Hz
MinFreqs == {0, 1}

\* FFT sizes given to mfcc
MfccFFTs == {1, 4}
\* FFT sizes given to fbank: those whose power spectrum is rational
FbankFFTs == {1, 2, 4}
\* liftering coefficients given to mfcc: lifter off, and the default
Lifts == {0, 22}
\* mfcc's default pre-emphasis coefficient, in hundredths (preemph=0.97)
preemph100 == 97
\* mfcc's default deriv_spread
deriv_spread == 2

Signals == UNION {[1..n -> Samples] : n \in 0..MaxSigLen}

(***************************************************************************)
(* Python helpers.                                                         *)
(***************************************************************************)
\* round(x) of Python 3 for x = x2/2 >= 0: to nearest, a half to even.
round(x2) ==
    LET q == x2 \div 2
    IN  IF x2 % 2 = 0 THEN q ELSE IF q % 2 = 0 THEN q ELSE q + 1

\* int(math.ceil((1.0 * a) / b)) for a >= 0, b > 0
ceil(a, b) == IF a % b = 0 THEN a \div b ELSE (a \div b) + 1

\* np.zeros(n)
zeros(n) == [k \in 1..n |-> 0]

\* winfunc(frame_len): the weight vector of a window function
window(winfunc, frame_len) ==
    [j \in 1..frame_len |->
        CASE winfunc = "ones"  -> 1
          [] winfunc = "ramp"  -> j
          [] winfunc = "decay" -> frame_len - j]

\* a call that raises
Raise(exc) == [status |-> exc]
\* a call that returns
Return(v) == [status |-> "ok", value |-> v]

(***************************************************************************)
(* framesig (mfcc.py 204-240).                                             *)
(***************************************************************************)
\* numframes with the quotient truncated instead of rounded up
numframes_floor(slen, frame_len, frame_step) ==
    IF slen <= frame_len THEN 1
    ELSE 1 + ((slen - frame_len) \div frame_step)

\* numframes, lines 227-230 (frame_step > 0 when slen > frame_len)
numframes_of(slen, frame_len, frame_step) ==
    IF slen <= frame_len THEN 1
    ELSE 1 + ceil(slen - frame_len, frame_step)

\* the index matrix with frames laid end to end (a stride of frame_len)
frame_indices_abutting(numframes, frame_len, frame_step) ==
    [i \in 1..numframes |-> [j \in 1..frame_len |-> (i - 1) * frame_len + (j - 1)]]

\* the index matrix of lines 235-237: indices[i][j] is the 0-based position
\* in the padded signal of column j of frame i (here i, j from 1)
frame_indices(numframes, frame_len, frame_step) ==
    [i \in 1..numframes |-> [j \in 1..frame_len |-> (i - 1) * frame_step + (j - 1)]]

framesig(sig, frame_len2, frame_step2, winfunc) ==
    LET slen == Len(sig)
        frame_len == round(frame_len2)
        frame_step == round(frame_step2)
    IN  \* line 230 divides by frame_step; line 236 is np.arange(0, 0, 0)
        IF frame_step = 0 THEN Raise("ZeroDivisionError")
        ELSE
        LET numframes == numframes_of(slen, frame_len, frame_step)
            padlen == (numframes - 1) * frame_step + frame_len
            padsignal == sig \o zeros(padlen - slen)
            indices == frame_indices(numframes, frame_len, frame_step)
            win == window(winfunc, frame_len)
        IN  \* np.zeros of a negative length; an index past the padded signal
            IF padlen < slen THEN Raise("ValueError")
            ELSE IF \E i \in 1..numframes : \E j \in 1..frame_len :
                        indices[i][j] >= Len(padsignal)
            THEN Raise("IndexError")
            ELSE Return([i \in 1..numframes |->
                      [j \in 1..frame_len |-> padsignal[indices[i][j] + 1] * win[j]]])

(***************************************************************************)
(* deframesig (mfcc.py 243-287).  A sample of the result is the fraction   *)
(* num / (wsum + cnt * 1e-15): num the sum of the frame entries added at   *)
(* that position, wsum the sum of their window weights, cnt the number of  *)
(* frames added (each adds the 1e-15 bias).  cnt = 0 is 0/0, a NaN.        *)
(***************************************************************************)
RECURSIVE overlap_add_unweighted(_, _, _, _, _)
\* the loop with the correction buffer counting frames (+= 1 + 1e-15)
\* instead of adding the window
overlap_add_unweighted(frames, indices, win, i, acc) ==
    IF i > Len(frames) THEN acc
    ELSE overlap_add_unweighted(frames, indices, win, i + 1,
            [k \in 1..Len(acc) |->
                IF \E j \in 1..Len(win) : indices[i][j] + 1 = k
                THEN LET j == CHOOSE j \in 1..Len(win) : indices[i][j] + 1 = k
                     IN  [num  |-> acc[k].num + frames[i][j],
                          wsum |-> acc[k].wsum + 1,
                          cnt  |-> acc[k].cnt + 1]
                ELSE acc[k]])

RECURSIVE overlap_add(_, _, _, _, _)
\* the loop of lines 281-284 from frame i on, acc the two buffers
overlap_add(frames, indices, win, i, acc) ==
    IF i > Len(frames) THEN acc
    ELSE overlap_add(frames, indices, win, i + 1,
            [k \in 1..Len(acc) |->
                IF \E j \in 1..Len(win) : indices[i][j] + 1 = k
                THEN LET j == CHOOSE j \in 1..Len(win) : indices[i][j] + 1 = k
                     IN  [num  |-> acc[k].num + frames[i][j],
                          wsum |-> acc[k].wsum + win[j],
                          cnt  |-> acc[k].cnt + 1]
                ELSE acc[k]])

\* rec_signal[:siglen] for siglen >= 0
take(s, n) == [k \in 1..(IF n < Len(s) THEN n ELSE Len(s)) |-> s[k]]

deframesig(frames, frame_len2, frame_step2, siglen, winfunc) ==
    LET frame_len == round(frame_len2)
        frame_step == round(frame_step2)
        numframes == Len(frames)
    IN  IF \E i \in 1..numframes : Len(frames[i]) # frame_len
        THEN Raise("AssertionError")
        ELSE
        LET indices == frame_indices(numframes, frame_len, frame_step)
            padlen == (numframes - 1) * frame_step + frame_len
            n == IF siglen = None THEN padlen ELSE siglen[1]
            win == window(winfunc, frame_len)
            rec_signal == overlap_add(frames, indices, win, 1,
                              [k \in 1..padlen |-> [num |-> 0, wsum |-> 0, cnt |-> 0]])
        IN  Return(take(rec_signal, n))

(***************************************************************************)
(* get_filterbanks (mfcc.py 136-179).  maxfreq is given in half Hz         *)
(* (maxfreq2 = 2 * maxfreq), so that fs/2 of an odd fs is an argument.     *)
(* A weight is the fraction num/den, den > 0.                              *)
(* Line 173 is np.zeros([n_filters, n_fft/2+1]).  Under Python 3 the       *)
(* second dimension is a float: numpy from 1.12 on raises TypeError for    *)
(* it ("strict"), older numpy truncates it to n_fft // 2 + 1 ("legacy").   *)
(* Which of the two the installation does is left open.                    *)
(***************************************************************************)
\* what np.zeros does with a float dimension
NumpyBuilds == {"strict", "legacy"}

\* line 162: maxfreq = fs // 2 if maxfreq is None else maxfreq, in half Hz
resolve_maxfreq2(fs, maxfreq2) ==
    IF maxfreq2 = None THEN 2 * (fs \div 2) ELSE maxfreq2[1]

\* the assertion of line 163: maxfreq <= fs // 2
nyquist_ok(fs, maxfreq2) == maxfreq2 <= 2 * (fs \div 2)

\* floor((n_fft + 1) * f / fs) of line 171 for f = f2/2 Hz
hz2bin(n_fft, f2, fs) == ((n_fft + 1) * f2) \div (2 * fs)

\* The bin of an end frequency f = f2/2 Hz after mel2hz(hz2mel(f)): the
\* round trip through floating-point Mels may land just under f, and the
\* floor then gives one bin less where (n_fft + 1) * f / fs is a whole
\* number.  0 Hz goes through the round trip unchanged.
fbin_ends(n_fft, f2, fs) ==
    {hz2bin(n_fft, f2, fs)} \cup
        (IF f2 > 0 /\ ((n_fft + 1) * f2) % (2 * fs) = 0
         THEN {hz2bin(n_fft, f2, fs) - 1} ELSE {})

\* Lines 166-171.  hz2mel and mel2hz are increasing and inverse to each
\* other and linspace is monotone from its first point to its last, so
\* fbin runs monotonically from the bin of minfreq to the bin of maxfreq;
\* the bins in between depend on the Mel curve and are left open: every
\* monotone vector with these ends is a candidate.
fbin_candidates(n_filters, n_fft, fs, minfreq, maxfreq2) ==
    LET los == fbin_ends(n_fft, 2 * minfreq, fs)
        his == fbin_ends(n_fft, maxfreq2, fs)
        rising == 2 * minfreq <= maxfreq2
        all == los \cup his
        bot == CHOOSE b \in all : \A c \in all : b <= c
        top == CHOOSE b \in all : \A c \in all : b >= c
    IN  {f \in [1..(n_filters + 2) -> bot..top] :
            /\ f[1] \in los
            /\ f[n_filters + 2] \in his
            /\ \A m \in 1..(n_filters + 1) :
                  IF rising THEN f[m] <= f[m + 1] ELSE f[m] >= f[m + 1]}

zero_weight == [num |-> 0, den |-> 1]

\* row j of fbank after the loops of lines 175-178, b0, b1, b2 its control
\* bins fbin[j], fbin[j+1], fbin[j+2]; column c holds bin c - 1
\* A negative bin i indexes from the end of the row (column ncols + i);
\* the bins are written in increasing order, so where i and i - ncols are
\* both written the column keeps the weight of i.
filter_row(b0, b1, b2, ncols) ==
    LET written(i) == (b0 <= i /\ i < b1) \/ (b1 <= i /\ i < b2)
        weight(i) == IF b0 <= i /\ i < b1 THEN [num |-> i - b0, den |-> b1 - b0]
                     ELSE [num |-> b2 - i, den |-> b2 - b1]
    IN  [c \in 1..ncols |->
            IF written(c - 1) THEN weight(c - 1)
            ELSE IF written(c - 1 - ncols) THEN weight(c - 1 - ncols)
            ELSE zero_weight]

\* get_filterbanks once fbin is computed (fbin[j] here is fbin[j-1] there)
get_filterbanks(n_filters, n_fft, fs, minfreq, maxfreq2, fbin, np_build) ==
    LET ncols == (n_fft \div 2) + 1
    IN  IF ~nyquist_ok(fs, resolve_maxfreq2(fs, maxfreq2))
        THEN Raise("AssertionError")
        ELSE IF np_build = "strict"
        THEN Raise("TypeError")    \* line 173: a float dimension
        ELSE IF \E j \in 1..n_filters :
                    \/ \E i \in fbin[j]..(fbin[j + 1] - 1) : i < -ncols \/ i >= ncols
                    \/ \E i \in fbin[j + 1]..(fbin[j + 2] - 1) : i < -ncols \/ i >= ncols
        THEN Raise("IndexError")
        ELSE Return([j \in 1..n_filters |->
                        filter_row(fbin[j], fbin[j + 1], fbin[j + 2], ncols)])

(***************************************************************************)
(* The cepstral pipeline (mfcc.py 18-108, 182-201, 309-324, 351-365).      *)
(* Shapes are exact.  Values that pass through the FFT, the logarithm and  *)
(* the cosine transform are kept as terms: a cell of the feature matrix is *)
(* [src, frame, coef, lift, order]: src what it holds ("fbank" a           *)
(* filterbank energy, "logfbank" its logarithm, "cepstrum" a DCT           *)
(* coefficient, "logenergy" the logarithm of the frame energy), frame and  *)
(* coef its 0-based row and column at the source, lift the coefficient L   *)
(* it was liftered with (0: not liftered), order how many times it was     *)
(* differentiated.                                                         *)
(***************************************************************************)
\* preemphasis, lines 351-365, for a signal of at least one sample; the
\* result is in hundredths (100*s[0], 100*s[i] - coeff100*s[i-1])
preemphasis(sig, coeff100) ==
    [k \in 1..Len(sig) |->
        IF k = 1 THEN 100 * sig[1] ELSE 100 * sig[k] - coeff100 * sig[k - 1]]

\* fbank, lines 95-108: the filterbank energies (one row per frame, one
\* column per filter) and the frame energies.  powspec gives n_fft/2+1
\* columns per frame.  get_filterbanks, called on line 103 with
\* maxfreq = fs // 2, passes its assertion; its line 173 then raises
\* TypeError on a strict numpy and on a legacy one it returns n_filters
\* rows of n_fft/2+1 columns, so the product of line 104 is defined.
fbank(audio, frame_len2, frame_step2, n_filters, n_fft, np_build) ==
    IF Len(audio) = 0 THEN Raise("IndexError")    \* signal[0], line 365
    ELSE
    LET framed == framesig(preemphasis(audio, preemph100), frame_len2, frame_step2, "ones")
    IN  IF framed.status # "ok" THEN framed
        ELSE IF np_build = "strict" THEN Raise("TypeError")
        ELSE LET numframes == Len(framed.value)
             IN  Return([feat |-> [i \in 1..numframes |-> [m \in 1..n_filters |->
                                    [src |-> "fbank", frame |-> i - 1, coef |-> m - 1,
                                     lift |-> 0, order |-> 0]]],
                         energy |-> [i \in 1..numframes |->
                                    [src |-> "energy", frame |-> i - 1, coef |-> 0,
                                     lift |-> 0, order |-> 0]]])

\* np.log, elementwise
log_of(cell) ==
    [cell EXCEPT !.src = IF cell.src = "fbank" THEN "logfbank" ELSE "logenergy"]

\* line 70: dct(feat, type=2, axis=1, norm='ortho')[:, :n_cepstra]: one
\* coefficient per filter, of which the slice keeps the first n_cepstra
dct_truncated(logfeat, n_cepstra) ==
    [i \in 1..Len(logfeat) |->
        [n \in 1..(IF n_cepstra < Len(logfeat[i]) THEN n_cepstra ELSE Len(logfeat[i])) |->
            [src |-> "cepstrum", frame |-> i - 1, coef |-> n - 1, lift |-> 0, order |-> 0]]]

\* lifter, lines 182-201
lifter(cepstra, L) ==
    IF L <= 0 THEN cepstra
    ELSE [i \in 1..Len(cepstra) |-> [n \in 1..Len(cepstra[i]) |->
              [cepstra[i][n] EXCEPT !.lift = L]]]

\* the overwrite storing the frame energy itself, without the logarithm
set_energy_unlogged(feat, energy_) ==
    [i \in 1..Len(feat) |-> [feat[i] EXCEPT ![1] = energy_[i]]]

\* line 74: feat[:, 0] = np.log(energy_)
set_energy(feat, energy_) ==
    [i \in 1..Len(feat) |-> [feat[i] EXCEPT ![1] = log_of(energy_[i])]]

\* utils.derivative(target, spread): a matrix of the shape of target whose
\* entries are slope estimates of target's columns
derivative(target, spread) ==
    [i \in 1..Len(target) |-> [n \in 1..Len(target[i]) |->
        [target[i][n] EXCEPT !.order = @ + 1]]]

RECURSIVE derivs_of(_, _)
\* the loop of lines 76-80: the derivative blocks, each of the one before
derivs_of(target, n_derivatives) ==
    IF n_derivatives = 0 THEN << >>
    ELSE LET d == derivative(target, deriv_spread)
         IN  <<d>> \o derivs_of(d, n_derivatives - 1)

RECURSIVE hstack(_)
\* np.hstack of a list of matrices with the same number of rows
hstack(blocks) ==
    IF Len(blocks) = 1 THEN blocks[1]
    ELSE LET rest == hstack(Tail(blocks))
         IN  [i \in 1..Len(blocks[1]) |-> blocks[1][i] \o rest[i]]

\* mfcc, lines 67-81
mfcc(audio, frame_len2, frame_step2, n_cepstra, n_filters, n_fft, lift, energy, n_derivatives, np_build) ==
    LET fb == fbank(audio, frame_len2, frame_step2, n_filters, n_fft, np_build)
    IN  IF fb.status # "ok" THEN fb
        ELSE
        LET logfeat == [i \in 1..Len(fb.value.feat) |->
                           [m \in 1..n_filters |-> log_of(fb.value.feat[i][m])]]
            ceps == lifter(dct_truncated(logfeat, n_cepstra), lift)
            feat0 == IF energy THEN set_energy(ceps, fb.value.energy) ELSE ceps
        IN  Return(hstack(<<feat0>> \o derivs_of(feat0, n_derivatives)))

(***************************************************************************)
(* The values fbank returns (mfcc.py 95-108, 290-324).  An energy is the   *)
(* exact value num/den + eps * 2^-52, num >= 0, den > 0: eps is 1 where    *)
(* the code stored np.finfo(float).eps and 0 elsewhere.  The samples are   *)
(* the hundredths preemphasis returns, which puts 10000 in den.  The FFT   *)
(* sizes divide 4: the roots of unity are then 1, -i, -1 and i and the     *)
(* spectrum of integer samples is an integer.                              *)
(***************************************************************************)
RECURSIVE SumTo(_, _)
\* f[1] + ... + f[n]
SumTo(f, n) == IF n = 0 THEN 0 ELSE f[n] + SumTo(f, n - 1)

\* cos and sin of q quarter turns
cos4(q) == <<1, 0, -1, 0>>[(q % 4) + 1]
sin4(q) == <<0, 1, 0, -1>>[(q % 4) + 1]

\* sample t (0-based) of a frame cropped or zero-padded to N_FFT samples,
\* as np.fft.rfft(frames, N_FFT) reads it
fft_input(frame, t) == IF t < Len(frame) THEN frame[t + 1] ELSE 0

\* |rfft(frame, N_FFT)[b]|^2 for N_FFT dividing 4: np.square(magspec(...))
magspec_squared(frame, N_FFT, b) ==
    LET turn(t) == b * t * (4 \div N_FFT)
        re == SumTo([t \in 1..N_FFT |-> fft_input(frame, t - 1) * cos4(turn(t - 1))], N_FFT)
        im == SumTo([t \in 1..N_FFT |-> fft_input(frame, t - 1) * sin4(turn(t - 1))], N_FFT)
    IN  re * re + im * im

\* powspec, lines 309-324: one row per frame, N_FFT/2 + 1 bins per row,
\* each 1.0 / N_FFT * |rfft|^2, here the numerator over N_FFT * 10000
powspec(frames, N_FFT) ==
    [i \in 1..Len(frames) |->
        [c \in 1..((N_FFT \div 2) + 1) |-> magspec_squared(frames[i], N_FFT, c - 1)]]

\* x[x == 0] = np.finfo(float).eps, lines 101 and 106, on one entry
floor_zero(x) == IF x.num = 0 THEN [num |-> 0, den |-> 1, eps |-> 1] ELSE x

RECURSIVE den_product(_, _)
\* the product of the denominators of the first n weights of a filter
den_product(row, n) == IF n = 0 THEN 1 ELSE row[n].den * den_product(row, n - 1)

\* one entry of np.dot(pspec, fb.T), line 104: the sum over the bins of
\* power times weight, over the product of the weights' denominators
filter_energy(power, row, N_FFT) ==
    LET d == den_product(row, Len(row))
    IN  [num |-> SumTo([c \in 1..Len(row) |-> power[c] * row[c].num * (d \div row[c].den)],
                       Len(row)),
         den |-> d * N_FFT * 10000,
         eps |-> 0]

\* fbank, lines 95-108, once get_filterbanks' control bins fbin are computed
fbank_values(audio, frame_len2, frame_step2, n_filters, n_fft, fs, minfreq, maxfreq2, fbin, np_build) ==
    IF Len(audio) = 0 THEN Raise("IndexError")    \* signal[0], line 365
    ELSE
    LET framed == framesig(preemphasis(audio, preemph100), frame_len2, frame_step2, "ones")
    IN  IF framed.status # "ok" THEN framed
        ELSE
        LET pspec == powspec(framed.value, n_fft)
            energy == [i \in 1..Len(pspec) |->
                          floor_zero([num |-> SumTo(pspec[i], Len(pspec[i])),
                                      den |-> n_fft * 10000, eps |-> 0])]
            fb == get_filterbanks(n_filters, n_fft, fs, minfreq, maxfreq2, fbin, np_build)
        IN  IF fb.status # "ok" THEN fb
            ELSE Return([feat |-> [i \in 1..Len(pspec) |-> [m \in 1..n_filters |->
                                      floor_zero(filter_energy(pspec[i], fb.value[m], n_fft))]],
                         energy |-> energy])

(***************************************************************************)
(* State: the function called, its arguments, and what was returned.       *)
(***************************************************************************)
VARIABLES
    call,       \* the function the caller invokes
    args,       \* its arguments
    pc,         \* "call" before it ran, "done" after
    frames,     \* what framesig returned or raised
    target,     \* deframesig's siglen argument
    signal,     \* what deframesig returned or raised
    fbin,       \* get_filterbanks' control bins (<< >> before they are computed)
    filterbank, \* what get_filterbanks returned or raised
    features,   \* what mfcc returned or raised
    energies    \* what fbank returned or raised

vars == <<call, args, pc, frames, target, signal, fbin, filterbank, features, energies>>

FramesigArgs ==
    [sig : Signals, frame_len2 : 0..MaxGeom2, frame_step2 : 0..MaxGeom2,
     winfunc : WinFuncs]

FilterbankArgs ==
    [n_filters : 1..MaxFilters, n_fft : 1..MaxFFT, fs : SampleRates,
     minfreq : MinFreqs,
     maxfreq2 : {None} \cup {Some(m) : m \in 0..MaxFreqArg2}]

\* the audio given to mfcc: for each length silence, a constant signal and
\* an impulse followed by silence
MfccAudio ==
    {[k \in 1..n |-> 0] : n \in 0..MaxSigLen}
        \cup {[k \in 1..n |-> 2] : n \in 1..MaxSigLen}
        \cup {[k \in 1..n |-> IF k = 1 THEN 2 ELSE 0] : n \in 1..MaxSigLen}

\* window_dt*fs and dt*fs are whole numbers of samples in the calls of mfcc
MfccArgs ==
    [audio : MfccAudio,
     frame_len2 : {g \in 0..MaxGeom2 : g % 2 = 0},
     frame_step2 : {g \in 0..MaxGeom2 : g % 2 = 0},
     n_cepstra : 1..MaxCepstra, n_filters : 1..MaxFilters, n_fft : MfccFFTs,
     lift : Lifts, energy : BOOLEAN, n_derivatives : 0..MaxDerivatives]

\* the audio given to fbank
FbankAudio == UNION {[1..n -> {0, 2}] : n \in 0..MaxSigLen}

\* window_dt*fs and dt*fs are whole numbers of samples in the calls of
\* fbank; maxfreq is left to its default
FbankArgs ==
    [audio : FbankAudio,
     frame_len2 : {g \in 0..MaxGeom2 : g % 2 = 0},
     frame_step2 : {g \in 0..MaxGeom2 : g % 2 = 0},
     n_filters : 1..MaxFilters, n_fft : FbankFFTs, fs : SampleRates,
     minfreq : MinFreqs, maxfreq2 : {None}]

Init ==
    /\ \/ call = "framesig" /\ args \in FramesigArgs
       \/ call = "get_filterbanks" /\ args \in FilterbankArgs
       \/ call = "mfcc" /\ args \in MfccArgs
       \/ call = "fbank" /\ args \in FbankArgs
    /\ features = NoResult
    /\ energies = NoResult
    /\ pc = "call"
    /\ frames = NoResult
    /\ target = None
    /\ signal = NoResult
    /\ fbin = << >>
    /\ filterbank = NoResult

\* frames = framesig(sig, frame_len, frame_step, winfunc)
Framesig ==
    /\ call = "framesig"
    /\ pc = "call"
    /\ frames' = framesig(args.sig, args.frame_len2, args.frame_step2, args.winfunc)
    /\ pc' = "framed"
    /\ UNCHANGED <<call, args, target, signal, fbin, filterbank, features, energies>>

\* signal = deframesig(frames, frame_len, frame_step, siglen, winfunc) on the
\* frames framesig returned, with the same geometry and window
Deframesig ==
    /\ call = "framesig"
    /\ pc = "framed"
    /\ frames.status = "ok"
    /\ \E siglen \in {None} \cup {Some(n) : n \in 0..MaxTarget} :
          /\ target' = siglen
          /\ signal' = deframesig(frames.value, args.frame_len2, args.frame_step2,
                                  siglen, args.winfunc)
    /\ pc' = "done"
    /\ UNCHANGED <<call, args, frames, fbin, filterbank, features, energies>>

\* filterbank = get_filterbanks(n_filters, n_fft, fs, minfreq, maxfreq)
GetFilterbanks ==
    /\ call = "get_filterbanks"
    /\ pc = "call"
    /\ IF nyquist_ok(args.fs, resolve_maxfreq2(args.fs, args.maxfreq2))
       THEN \E f \in fbin_candidates(args.n_filters, args.n_fft, args.fs, args.minfreq,
                                     resolve_maxfreq2(args.fs, args.maxfreq2)) :
             \E np_build \in NumpyBuilds :
               /\ fbin' = f
               /\ filterbank' = get_filterbanks(args.n_filters, args.n_fft, args.fs,
                                                args.minfreq, args.maxfreq2, f, np_build)
       ELSE \* the assertion fails before fbin is computed
            /\ fbin' = fbin
            /\ filterbank' = get_filterbanks(args.n_filters, args.n_fft, args.fs,
                                             args.minfreq, args.maxfreq2, fbin, "strict")
    /\ pc' = "done"
    /\ UNCHANGED <<call, args, frames, target, signal, features, energies>>

\* features = mfcc(audio, fs, window_dt, dt, n_cepstra, n_filters, n_fft,
\*                 lift=lift, energy=energy, n_derivatives=n_derivatives)
Mfcc ==
    /\ call = "mfcc"
    /\ pc = "call"
    /\ \E np_build \in NumpyBuilds :
          features' = mfcc(args.audio, args.frame_len2, args.frame_step2, args.n_cepstra,
                           args.n_filters, args.n_fft, args.lift, args.energy,
                           args.n_derivatives, np_build)
    /\ pc' = "done"
    /\ UNCHANGED <<call, args, frames, target, signal, fbin, filterbank, energies>>

\* energies = fbank(audio, fs, window_dt, dt, n_filters, n_fft, minfreq)
Fbank ==
    /\ call = "fbank"
    /\ pc = "call"
    /\ IF Len(args.audio) > 0 /\ round(args.frame_step2) > 0
       THEN \E f \in fbin_candidates(args.n_filters, args.n_fft, args.fs, args.minfreq,
                                     resolve_maxfreq2(args.fs, args.maxfreq2)) :
             \E np_build \in NumpyBuilds :
               /\ fbin' = f
               /\ energies' = fbank_values(args.audio, args.frame_len2, args.frame_step2,
                                           args.n_filters, args.n_fft, args.fs,
                                           args.minfreq, args.maxfreq2, f, np_build)
       ELSE \* preemphasis or framesig raises before get_filterbanks is called
            /\ fbin' = fbin
            /\ energies' = fbank_values(args.audio, args.frame_len2, args.frame_step2,
                                        args.n_filters, args.n_fft, args.fs,
                                        args.minfreq, args.maxfreq2, fbin, "strict")
    /\ pc' = "done"
    /\ UNCHANGED <<call, args, frames, target, signal, filterbank, features>>

Next == Framesig \/ Deframesig \/ GetFilterbanks \/ Mfcc \/ Fbank

Spec == Init /\ [][Next]_vars

(***************************************************************************)
(* Properties of framing.  They are stated from the arguments alone: the   *)
(* frame count as the least number of steps that reaches the end of the    *)
(* signal, the overlap sum as a sum over the frames that cover a sample.   *)
(***************************************************************************)
\* the call is framesig and it has run
Framed == call = "framesig" /\ pc # "call"
\* the rounded geometry of the call
FrameLen == round(args.frame_len2)
FrameStep == round(args.frame_step2)
SigLen == Len(args.sig)
ValidGeometry == FrameLen >= 1 /\ FrameStep >= 1

\* 1 + ceil((n - frame_len) / frame_step) as 1 + the least m with
\* m * frame_step >= n - frame_len
ExpectedFrames ==
    IF SigLen <= FrameLen THEN 1
    ELSE 1 + CHOOSE m \in 0..SigLen :
                 /\ m * FrameStep >= SigLen - FrameLen
                 /\ \A m2 \in 0..(m - 1) : m2 * FrameStep < SigLen - FrameLen

\* s[p] for a 0-based position p, 0 past the end (right zero-padding)
PaddedSample(p) == IF p < SigLen THEN args.sig[p + 1] ELSE 0

\* C1: with rounded frame_len, frame_step >= 1, framesig returns N rows of
\* frame_len columns, N = 1 if n <= frame_len and 1 + ceil((n - frame_len) /
\* frame_step) otherwise, and entry (i, j) is window[j] * s[i*frame_step + j]
\* inside the signal and 0 past its end.
C1_FrameMatrix ==
    (Framed /\ ValidGeometry) =>
        /\ frames.status = "ok"
        /\ Len(frames.value) = ExpectedFrames
        /\ \A i \in 1..Len(frames.value) :
              /\ Len(frames.value[i]) = FrameLen
              /\ \A j \in 1..FrameLen :
                    frames.value[i][j] =
                        window(args.winfunc, FrameLen)[j]
                            * PaddedSample((i - 1) * FrameStep + (j - 1))

\* C1 witness: several overlapping frames, the last one zero-padded, of a
\* signal that does not end in a zero, under a window that is not flat
C1_Witness ==
    /\ Framed /\ ValidGeometry
    /\ frames.status = "ok"
    /\ Len(frames.value) >= 2
    /\ FrameStep < FrameLen
    /\ (Len(frames.value) - 1) * FrameStep + FrameLen > SigLen
    /\ args.sig[SigLen] # 0
    /\ args.winfunc = "ramp"

\* the window weights of the frames covering 0-based sample p: frame i
\* (from 0) covers it at column p - i*frame_step when that is in 0..frame_len-1
OverlapSum(p) ==
    SumTo([i \in 1..ExpectedFrames |->
              LET j == p - (i - 1) * FrameStep
              IN  IF 0 <= j /\ j < FrameLen
                  THEN window(args.winfunc, FrameLen)[j + 1] ELSE 0],
          ExpectedFrames)

\* the call deframesig(framesig(s, L, S, w), L, S, len(s), w) has run
RoundTrip == call = "framesig" /\ pc = "done" /\ target = Some(SigLen)

\* C2: for rounded frame_len, frame_step >= 1 and a window whose overlap sum
\* is nonzero at every sample of the signal, deframesig(framesig(s), len(s))
\* has len(s) samples and sample k is (sum of the windowed samples of the
\* frames covering k) / (sum of their weights + 1e-15 each), the numerator
\* being s[k] times the sum of the weights: s[k] up to the bias.
C2_RoundTripReconstructs ==
    (RoundTrip /\ ValidGeometry /\ \A p \in 0..(SigLen - 1) : OverlapSum(p) # 0) =>
        /\ signal.status = "ok"
        /\ Len(signal.value) = SigLen
        /\ \A k \in 1..SigLen :
              /\ signal.value[k].cnt >= 1
              /\ signal.value[k].wsum = OverlapSum(k - 1)
              /\ signal.value[k].num = args.sig[k] * signal.value[k].wsum

\* C2 witness: a round trip under the window with a zero weight, where a
\* nonzero sample is rebuilt from two overlapping frames
C2_Witness ==
    /\ RoundTrip /\ ValidGeometry
    /\ \A p \in 0..(SigLen - 1) : OverlapSum(p) # 0
    /\ args.winfunc = "decay"
    /\ signal.status = "ok"
    /\ \E k \in 1..SigLen : signal.value[k].cnt >= 2 /\ args.sig[k] # 0

\* sample p (0-based) is an entry of the frame matrix
Covered(p) ==
    \E i \in 1..Len(frames.value) : \E j \in 1..FrameLen :
        (i - 1) * FrameStep + (j - 1) = p

\* C3 as claimed: for every geometry with rounded frame_len, frame_step >= 1,
\* frame_step > frame_len included, every sample index of the signal is
\* covered by a frame.
C3_EverySampleCovered ==
    (Framed /\ ValidGeometry) =>
        /\ frames.status = "ok"
        /\ \A p \in 0..(SigLen - 1) : Covered(p)

\* C3 amended: when 1 <= frame_step <= frame_len (rounded), every sample
\* index of the signal is covered by a frame.
C3_CoveredWhenStepWithinFrame ==
    (Framed /\ ValidGeometry /\ FrameStep <= FrameLen) =>
        /\ frames.status = "ok"
        /\ \A p \in 0..(SigLen - 1) : Covered(p)

\* C3 witness: a signal longer than a frame, framed with a step no longer
\* than the frame, the last frame reaching past the signal's end
C3_Witness ==
    /\ Framed /\ ValidGeometry /\ FrameStep <= FrameLen
    /\ frames.status = "ok"
    /\ SigLen > FrameLen
    /\ (SigLen - FrameLen) % FrameStep # 0

\* C7 as claimed: a call whose frame_len or frame_step rounds to less than
\* one sample is rejected, whatever the signal's length: framesig returns no
\* frame matrix for it.
C7_InvalidGeometryRejected ==
    (Framed /\ ~ValidGeometry) => frames.status # "ok"

(***************************************************************************)
(* Properties of the filterbank.                                           *)
(***************************************************************************)
\* get_filterbanks has run
FilterbankDone == call = "get_filterbanks" /\ pc = "done"
\* the maxfreq of the call, in half Hz
MaxFreq2 == resolve_maxfreq2(args.fs, args.maxfreq2)

\* C6 as claimed: get_filterbanks raises the Nyquist error (the assertion
\* of line 163) exactly when max_freq > fs/2; every max_freq <= fs/2, fs/2
\* itself for an odd fs included, is accepted and every larger one rejected.
C6_NyquistExactlyAboveHalfRate ==
    FilterbankDone => (filterbank.status = "AssertionError" <=> MaxFreq2 > args.fs)

\* filter j (from 1) has two control bins that coincide
Degenerate(j) == fbin[j + 1] = fbin[j] \/ fbin[j + 2] = fbin[j + 1]

\* C8 as claimed: whenever some filter has b1 = b0 or b2 = b1,
\* get_filterbanks raises the error of a degenerate filter and returns no
\* filterbank.  The TypeError of line 173 is not that error: a strict numpy
\* raises it for every call that passes the assertion.
C8_DegenerateFilterRejected ==
    (FilterbankDone /\ fbin # << >> /\ \E j \in 1..args.n_filters : Degenerate(j))
        => filterbank.status \notin {"ok", "TypeError"}

\* fractions with positive denominators
Less(a, b) == a.num * b.den < b.num * a.den
IsOne(a) == a.num = a.den
IsZero(a) == a.num = 0

\* row j is triangular over its control bins: n_fft/2+1 columns, 0 at b0 and
\* outside [b0, b2), 1 at b1 which is the row maximum, strictly increasing
\* on [b0, b1], strictly decreasing on [b1, b2], the bins written (b0 to
\* b2 - 1) in range.  For an odd n_fft the bin b2 of the last filter is
\* n_fft/2 + 1, one past the row: it is read as carrying weight 0.
Triangular(j) ==
    LET row == filterbank.value[j]
        ncols == (args.n_fft \div 2) + 1
        b0 == fbin[j]
        b1 == fbin[j + 1]
        b2 == fbin[j + 2]
        w(i) == IF i + 1 <= Len(row) THEN row[i + 1] ELSE zero_weight
    IN  /\ Len(row) = ncols
        /\ 0 <= b0 /\ b2 - 1 <= ncols - 1
        /\ \A i \in 0..(ncols - 1) : (i <= b0 \/ i >= b2) => IsZero(w(i))
        /\ IsOne(w(b1))
        /\ \A i \in 0..(ncols - 1) : ~Less(w(b1), w(i))
        /\ \A i \in b0..(b1 - 1) : Less(w(i), w(i + 1))
        /\ \A i \in b1..(b2 - 1) : Less(w(i + 1), w(i))

\* C9 as claimed: every row of the matrix get_filterbanks returns is
\* triangular over its control bins.
C9_RowsTriangular ==
    (FilterbankDone /\ filterbank.status = "ok") =>
        /\ Len(filterbank.value) = args.n_filters
        /\ \A j \in 1..args.n_filters : Triangular(j)

\* What remains of C9 on the code: a row whose control bins are strictly
\* increasing (b0 < b1 < b2) is triangular.
ProperRowsTriangular ==
    (FilterbankDone /\ filterbank.status = "ok") =>
        /\ Len(filterbank.value) = args.n_filters
        /\ \A j \in 1..args.n_filters :
              (fbin[j] < fbin[j + 1] /\ fbin[j + 1] < fbin[j + 2]) => Triangular(j)

(***************************************************************************)
(* Properties of mfcc.                                                     *)
(***************************************************************************)
\* mfcc has run
MfccDone == call = "mfcc" /\ pc = "done"

\* the rows of the framing formula for the audio and geometry of the call
MfccExpectedFrames ==
    LET n == Len(args.audio)
        frame_len == round(args.frame_len2)
        frame_step == round(args.frame_step2)
    IN  IF n <= frame_len THEN 1
        ELSE 1 + CHOOSE m \in 0..n :
                     /\ m * frame_step >= n - frame_len
                     /\ \A m2 \in 0..(m - 1) : m2 * frame_step < n - frame_len

\* a valid call: audio of at least one sample, a window and a step of at
\* least one sample, and no more cepstra than filters
MfccValid ==
    /\ Len(args.audio) >= 1
    /\ round(args.frame_len2) >= 1 /\ round(args.frame_step2) >= 1
    /\ args.n_cepstra <= args.n_filters

\* C4 as claimed: for valid parameters mfcc returns a matrix with one row
\* per frame of the framing formula and n_cepstra * (1 + n_derivatives)
\* columns.  On a strict numpy mfcc returns no matrix: get_filterbanks,
\* called by fbank, raises TypeError.
C4_MfccShape ==
    (MfccDone /\ MfccValid) =>
        /\ features.status = "ok"
        /\ Len(features.value) = MfccExpectedFrames
        /\ \A i \in 1..Len(features.value) :
              Len(features.value[i]) = args.n_cepstra * (1 + args.n_derivatives)

\* What remains of C4 on the code: for valid parameters mfcc raises
\* TypeError or returns a matrix of the claimed shape
MfccShapeWhenReturned ==
    (MfccDone /\ MfccValid) =>
        \/ features.status = "TypeError"
        \/ /\ features.status = "ok"
           /\ Len(features.value) = MfccExpectedFrames
           /\ \A i \in 1..Len(features.value) :
                 Len(features.value[i]) = args.n_cepstra * (1 + args.n_derivatives)

\* C5 as claimed: asking for more cepstra than filters (of a call that is
\* valid otherwise) raises the error of too many cepstra; mfcc never returns
\* a matrix for such a call.  The TypeError of get_filterbanks' line 173 is
\* not that error: a strict numpy raises it for every call.
C5_TooManyCepstraRejected ==
    (/\ MfccDone
     /\ Len(args.audio) >= 1
     /\ round(args.frame_len2) >= 1 /\ round(args.frame_step2) >= 1
     /\ args.n_cepstra > args.n_filters) => features.status \notin {"ok", "TypeError"}

\* the logarithm of the energy of frame i (0-based), neither liftered nor
\* differentiated
LogEnergy(i) ==
    [src |-> "logenergy", frame |-> i, coef |-> 0, lift |-> 0, order |-> 0]

\* C10: with the energy flag set, column 0 of the base block is
\* log(frame_energy) of its frame for every lifter coefficient (written
\* after the DCT and the lifter, so not liftered), and column 0 of the first
\* derivative block is the derivative of that column (the derivatives are
\* taken from the energy-substituted block).
C10_EnergyReplacesCepstrumZero ==
    (MfccDone /\ features.status = "ok" /\ args.energy) =>
        \A i \in 1..Len(features.value) :
            LET width == Len(features.value[i]) \div (1 + args.n_derivatives)
            IN  /\ features.value[i][1] = LogEnergy(i - 1)
                /\ args.n_derivatives >= 1 =>
                      features.value[i][width + 1] =
                          [LogEnergy(i - 1) EXCEPT !.order = 1]

\* C10 witness: the energy flag with the lifter on, several coefficients
\* (the others liftered) and a derivative block
C10_Witness ==
    /\ MfccDone /\ MfccValid /\ features.status = "ok" /\ args.energy
    /\ args.lift > 0
    /\ args.n_derivatives >= 1
    /\ Len(features.value) >= 2
    /\ Len(features.value[1]) >= 2 * (1 + args.n_derivatives)
    /\ features.value[2][2].lift = args.lift

(***************************************************************************)
(* The length of what deframesig returns.                                  *)
(***************************************************************************)
\* deframesig has run on the frames of the call and returned
Deframed == call = "framesig" /\ pc = "done" /\ signal.status = "ok"

\* the length of the overlap-add buffer: (numframes-1)*frame_step + frame_len
BufferLen == (Len(frames.value) - 1) * FrameStep + FrameLen

\* C12 as claimed: deframesig (here on frames of at least one sample, a
\* step of at least one) returns exactly target_len samples for every
\* target_len, truncating a longer buffer and padding a shorter one, and
\* the buffer's length when target_len is omitted.
C12_ExactTargetLength ==
    (Deframed /\ ValidGeometry) =>
        Len(signal.value) = IF target = None THEN BufferLen ELSE target[1]

\* What remains of C12 on the code: the result has min(target_len, buffer
\* length) samples, the first ones of the buffer; it is never padded.
DeframedLengthIsMinimum ==
    Deframed =>
        Len(signal.value) =
            IF target = None \/ target[1] >= BufferLen THEN BufferLen ELSE target[1]

(***************************************************************************)
(* fbank: the filterbank energies and the frame energies                   *)
(***************************************************************************)
\* fbank has run
FbankDone == call = "fbank" /\ pc = "done"
\* the rounded frame length and step given to fbank are at least one sample
FbankGeometryValid == round(args.frame_len2) >= 1 /\ round(args.frame_step2) >= 1
\* an energy num/den + eps * 2^-52 is strictly positive
Positive(x) == x.den > 0 /\ x.num >= 0 /\ (x.num > 0 \/ x.eps = 1)
\* every entry of a filterbank energy matrix and of a frame energy vector
\* is strictly positive
AllPositive(v) ==
    /\ \A i \in 1..Len(v.feat) : \A m \in 1..Len(v.feat[i]) : Positive(v.feat[i][m])
    /\ \A i \in 1..Len(v.energy) : Positive(v.energy[i])

\* C11 as claimed: for every finite input signal (here with frames of at
\* least one sample and a step of at least one) fbank returns a filterbank
\* energy matrix and a frame energy vector whose entries are all strictly
\* positive, so that the pipeline always produces finite output.  The code
\* returns nothing for the signal of no samples: preemphasis reads
\* signal[0]; and nothing at all on a strict numpy, where get_filterbanks
\* raises TypeError.
C11_AlwaysPositiveEnergies ==
    (FbankDone /\ FbankGeometryValid) =>
        (energies.status = "ok" /\ AllPositive(energies.value))

\* What remains of C11 on the code: whenever fbank returns, every entry of
\* both results is strictly positive, the exact zeros being replaced
FbankReturnsPositive ==
    (FbankDone /\ energies.status = "ok") => AllPositive(energies.value)
\* for every signal of at least one sample and a step of at least one
\* fbank returns, unless get_filterbanks raises TypeError
FbankReturnsOnSamples ==
    (FbankDone /\ Len(args.audio) > 0 /\ round(args.frame_step2) >= 1) =>
        energies.status \in {"ok", "TypeError"}
\* a silent frame beside one with power that a filter does not pick up
FbankFlooredBoth ==
    /\ FbankDone /\ energies.status = "ok" /\ FbankGeometryValid
    /\ \E i \in 1..Len(energies.value.energy) : energies.value.energy[i].eps = 1
    /\ \E i \in 1..Len(energies.value.energy) :
          /\ energies.value.energy[i].eps = 0
          /\ \E m \in 1..args.n_filters : energies.value.feat[i][m].eps = 1
          /\ \E m \in 1..args.n_filters : energies.value.feat[i][m].eps = 0

============================================================================
